---------------------------- MODULE Spec2Model ----------------------------
(***************************************************************************)
(* A model of src/app.py (class BitcoinDashboard): the file-backed cache   *)
(* with its 600 s expiry, the retention-bounded history log, the retrying  *)
(* HTTP fetch, the price fallback chain, the signal arithmetic and the     *)
(* node classification, and the dashboard run that ties them together.     *)
(*                                                                         *)
(* Python values are modelled as follows.  A dict is a TLA+ function       *)
(* (a record when its keys are identifiers), a list is a sequence, None is *)
(* the record PyNone, a str that the code searches is a sequence of        *)
(* one-character strings, a float is an exact fraction <<num, den>>.       *)
(* A datetime is an integer number of seconds; isoformat() and             *)
(* fromisoformat() are the boxing and unboxing of that integer in a        *)
(* record with the field iso.  A raised exception is a record with the     *)
(* field raised.                                                           *)
(***************************************************************************)
EXTENDS Integers, Sequences, FiniteSets, TLC

VARIABLES
    clock,        \* datetime.now(), in seconds
    cache_file,   \* contents of bitnodes_cache.json
    data_file,    \* contents of network_data.json
    appended,     \* history: every record ever appended, in append order
    last,         \* the locals of the most recent operation (observer)
    retry,        \* the frame of make_api_request_with_retry
    proc          \* the frames of the concurrently running dashboards

vars == <<clock, cache_file, data_file, appended, last, retry, proc>>

---------------------------------------------------------------------------
(* Program constants (BitcoinDashboard.__init__).                          *)

max_data_points == 1008
cache_duration == 600
sample_size == 1000

---------------------------------------------------------------------------
(* Python values.                                                          *)

PyNone == [py |-> "None"]
EmptyDict == [k \in {} |-> 0]

\* bool(x) for x a dict or None: `if data:`, `if not previous_data:`.
Truthy(x) == x # PyNone /\ DOMAIN x # {}

\* bool(x) for x a list, or a peer mapping given as the list of its values
NonEmpty(x) == Len(x) > 0

\* d.get(k, default)
Get(d, k, default) == IF k \in DOMAIN d THEN d[k] ELSE default

\* d[k] = v on a dict
Put(d, k, v) == [x \in DOMAIN d \cup {k} |-> IF x = k THEN v ELSE d[x]]

isoformat(t) == [iso |-> t]
fromisoformat(s) == s.iso

Min(a, b) == IF a < b THEN a ELSE b

---------------------------------------------------------------------------
(* Files.  A file is absent, holds text that json.load rejects (a          *)
(* truncated or partial write), or holds the JSON text of a value.         *)

Absent == [kind |-> "absent"]
Corrupt == [kind |-> "corrupt"]
json_dump(v) == [kind |-> "json", val |-> v]

exists(file) == file.kind # "absent"

\* json.load raises on text that is not JSON
json_load_raises(file) == file.kind # "json"
json_load(file) == file.val

---------------------------------------------------------------------------
(* Snapshot cache.                                                         *)

\* get_cached_data: any exception inside the try block yields None.
get_cached_data(file, key, now) ==
    IF ~exists(file) THEN PyNone
    ELSE IF json_load_raises(file) THEN PyNone
    ELSE LET cache == json_load(file) IN
         IF key \in DOMAIN cache
            /\ now - fromisoformat(cache[key].timestamp) < cache_duration
         THEN cache[key].data
         ELSE PyNone

\* set_cached_data, lines 47-50: the mapping the new entry is merged into,
\* or the exception that ends the call.
set_cached_data_read(file) ==
    IF ~exists(file) THEN [raised |-> FALSE, cache |-> EmptyDict]
    ELSE IF json_load_raises(file) THEN [raised |-> TRUE]
    ELSE [raised |-> FALSE, cache |-> json_load(file)]

\* set_cached_data, lines 52-58: the text written over the cache file.
set_cached_data_write(cache, key, data, now) ==
    json_dump(Put(cache, key, [timestamp |-> isoformat(now), data |-> data]))

\* set_cached_data: the cache file after the call.
set_cached_data(file, key, data, now) ==
    LET r == set_cached_data_read(file) IN
    IF r.raised THEN file
    ELSE set_cached_data_write(r.cache, key, data, now)

---------------------------------------------------------------------------
(* Historical log.                                                         *)

load_historical_data(file) ==
    IF ~exists(file) THEN <<>>
    ELSE IF json_load_raises(file) THEN <<>>
    ELSE json_load(file)

\* (mutation of Retained: data[:max_data_points], the newest record dropped)
RetainedHead(data) ==
    IF Len(data) > max_data_points
    THEN SubSeq(data, 1, max_data_points)
    ELSE data

\* data[-max_data_points:] when the list is longer than max_data_points
Retained(data) ==
    IF Len(data) > max_data_points
    THEN SubSeq(data, Len(data) - max_data_points + 1, Len(data))
    ELSE data

\* (mutation of save_historical_data: a record that repeats the one before
\* it in everything but its timestamp is not written)
save_historical_data_distinct(data) ==
    LET n == Len(data)
        undated(r) == [r EXCEPT !.timestamp = isoformat(0)]
    IN  IF n >= 2 /\ undated(data[n]) = undated(data[n - 1])
        THEN json_dump(Retained(SubSeq(data, 1, n - 1)))
        ELSE json_dump(Retained(data))

\* save_historical_data: the text written over the history file.
save_historical_data(data) == json_dump(Retained(data))

---------------------------------------------------------------------------
(* Floats, as exact fractions in lowest terms with a positive denominator. *)

RECURSIVE GCD(_, _)
GCD(a, b) == IF b = 0 THEN a ELSE GCD(b, a % b)

Abs(n) == IF n < 0 THEN -n ELSE n

Frac(n, d) ==
    LET g == GCD(Abs(n), Abs(d))
        s == IF d < 0 THEN -1 ELSE 1
    IN  [num |-> s * (n \div g), den |-> s * (d \div g)]

Zero == [num |-> 0, den |-> 1]
ZeroDivisionError == [raised |-> "ZeroDivisionError"]
Raised(x) == "raised" \in DOMAIN x

\* a / b on floats: Python raises ZeroDivisionError when b is zero
Div(a, b) ==
    IF b.num = 0 THEN ZeroDivisionError
    ELSE Frac(a.num * b.den, a.den * b.num)
\* a / b on ints
TrueDiv(a, b) == IF b = 0 THEN ZeroDivisionError ELSE Frac(a, b)
Sub(a, b) == Frac(a.num * b.den - b.num * a.den, a.den * b.den)
Mul(a, b) == Frac(a.num * b.num, a.den * b.den)
Gt(a, b) == a.num * b.den > b.num * a.den
Lt(a, b) == a.num * b.den < b.num * a.den

---------------------------------------------------------------------------
(* Strings that the code searches: sequences of one-character strings.     *)

\* the lower-case form of each upper-case letter
LowerOf ==
    [A |-> "a", B |-> "b", C |-> "c", D |-> "d", E |-> "e", F |-> "f",
     G |-> "g", H |-> "h", I |-> "i", J |-> "j", K |-> "k", L |-> "l",
     M |-> "m", N |-> "n", O |-> "o", P |-> "p", Q |-> "q", R |-> "r",
     S |-> "s", T |-> "t", U |-> "u", V |-> "v", W |-> "w", X |-> "x",
     Y |-> "y", Z |-> "z"]

LowerChar(c) == IF c \in DOMAIN LowerOf THEN LowerOf[c] ELSE c

\* s.lower()
lower(s) == [i \in 1..Len(s) |-> LowerChar(s[i])]

\* the positions at which sub occurs in s
Occurrences(s, sub) ==
    {i \in 1..(Len(s) - Len(sub) + 1) : SubSeq(s, i, i + Len(sub) - 1) = sub}

\* sub in s
In(sub, s) == Occurrences(s, sub) # {}

FirstOccurrence(s, sub) ==
    CHOOSE i \in Occurrences(s, sub) : \A j \in Occurrences(s, sub) : i <= j

\* s.split(sep)[0]
SplitHead(s, sep) ==
    IF In(sep, s) THEN SubSeq(s, 1, FirstOccurrence(s, sep) - 1) ELSE s

\* the text of s after the first occurrence of sep (sep occurs in s)
AfterFirst(s, sep) ==
    SubSeq(s, FirstOccurrence(s, sep) + Len(sep), Len(s))

\* s.split(sep)[1] (sep occurs in s)
SplitSecond(s, sep) == SplitHead(AfterFirst(s, sep), sep)

RECURSIVE Digits(_)
Digits(n) ==
    LET d == <<"0","1","2","3","4","5","6","7","8","9">> IN
    IF n < 10 THEN <<d[n + 1]>> ELSE Digits(n \div 10) \o <<d[(n % 10) + 1]>>

\* JSON scalars and lists inside a node entry
JInt(n) == [int |-> n]
JStr(s) == [str |-> s]
JList(l) == [list |-> l]

\* str(x) for x an int or a str
str(x) == IF "int" \in DOMAIN x THEN Digits(x.int) ELSE x.str

isinstance_list(x) == "list" \in DOMAIN x

TOR == <<"t","o","r">>
ONION == <<"o","n","i","o","n">>
COLON == <<":">>
SLASH == <<"/">>
SATOSHI == <<"S","a","t","o","s","h","i">>
SATOSHI_COLON == <<"S","a","t","o","s","h","i",":">>
UNKNOWN == <<"U","n","k","n","o","w","n">>

---------------------------------------------------------------------------
(* Node analysis.  A peer mapping `nodes` is the sequence of its values in *)
(* iteration order (the code never reads the keys).                        *)

\* (mutation of sampled_nodes: the last sample_size entries)
sampled_nodes_tail(nodes) ==
    SubSeq(nodes, Len(nodes) - Min(Len(nodes), sample_size) + 1, Len(nodes))

\* list(nodes.items())[:self.sample_size]
sampled_nodes(nodes) == SubSeq(nodes, 1, Min(Len(nodes), sample_size))

\* lines 133 and 166: the entries the loops look at
well_formed(node_data) ==
    isinstance_list(node_data) /\ Len(node_data.list) >= 2

\* lines 139-144
node_type(node_data) ==
    LET user_agent == str(node_data.list[2]) IN
    IF In(TOR, lower(user_agent)) \/ In(ONION, lower(user_agent)) THEN "Tor"
    ELSE IF In(COLON, str(node_data.list[1])) THEN "IPv6"
    ELSE "IPv4"

\* line 149
version_of(user_agent) ==
    IF In(SATOSHI_COLON, user_agent)
    THEN SplitHead(SplitSecond(user_agent, SATOSHI_COLON), SLASH)
    ELSE UNKNOWN

\* The dict a counting loop builds from the key of each entry it looks at:
\* each key that occurs, with the number of entries that have it.
Counts(keys) ==
    [k \in {keys[i] : i \in DOMAIN keys} |->
        Cardinality({i \in DOMAIN keys : keys[i] = k})]

analyze_nodes_distribution(nodes) ==
    IF ~NonEmpty(nodes) THEN EmptyDict
    ELSE LET sample == sampled_nodes(nodes)
             seen == {i \in 1..Len(sample) : well_formed(sample[i])}
             ua(i) == str(sample[i].list[2])
             ty(i) == node_type(sample[i])
             ver(i) == version_of(ua(i))
         IN  [total_nodes |-> Len(sample),
              node_types |-> Counts([i \in seen |-> ty(i)]),
              versions |-> Counts([i \in {j \in seen : In(SATOSHI, ua(j))} |-> ver(i)]),
              countries |-> EmptyDict,
              user_agents |-> Counts([i \in seen |-> ua(i)]),
              protocols |-> EmptyDict]

calculate_tor_percentage(nodes) ==
    IF ~NonEmpty(nodes) THEN Zero
    ELSE LET sample == sampled_nodes(nodes)
             total_count == Len(sample)
             tor_count == Cardinality(
                 {i \in 1..Len(sample) :
                     /\ well_formed(sample[i])
                     /\ LET user_agent == lower(str(sample[i].list[2]))
                        IN  In(TOR, user_agent) \/ In(ONION, user_agent)})
         IN  IF total_count > 0 THEN Frac(tor_count * 100, total_count)
             ELSE Zero

---------------------------------------------------------------------------
(* Signal engine.                                                          *)

Hundred == [num |-> 100, den |-> 1]

\* (mutation of calculate_tor_trend: the previous_tor == 0 guard left out)
calculate_tor_trend_unguarded(current_tor, previous_tor) ==
    LET q == Div(Sub(current_tor, previous_tor), previous_tor) IN
    IF Raised(q) THEN q ELSE Mul(q, Hundred)

calculate_tor_trend(current_tor, previous_tor) ==
    IF previous_tor.num = 0 THEN Zero
    ELSE LET q == Div(Sub(current_tor, previous_tor), previous_tor) IN
         IF Raised(q) THEN q ELSE Mul(q, Hundred)

get_tor_market_bias(tor_trend) ==
    IF Gt(tor_trend, [num |-> 1, den |-> 1]) THEN "SELL BIAS"
    ELSE IF Lt(tor_trend, [num |-> -1, den |-> 1]) THEN "BUY BIAS"
    ELSE "NEUTRAL"

calculate_network_signal(current_data, previous_data) ==
    IF ~Truthy(previous_data) THEN Zero
    ELSE LET current_total == Get(current_data, "total_nodes", 0)
             previous_total == Get(previous_data, "total_nodes", 0)
             current_active == Get(current_data, "active_nodes", 0)
         IN  IF previous_total = 0 \/ current_total = 0 THEN Zero
             ELSE LET node_growth ==
                          TrueDiv(current_total - previous_total, previous_total)
                      active_ratio == TrueDiv(current_active, current_total)
                  IN  IF Raised(node_growth) THEN node_growth
                      ELSE IF Raised(active_ratio) THEN active_ratio
                      ELSE Mul(active_ratio, node_growth)

get_network_signal(signal_value) ==
    IF Gt(signal_value, [num |-> 1, den |-> 100]) THEN "BUY"
    ELSE IF Lt(signal_value, [num |-> -1, den |-> 100]) THEN "SELL"
    ELSE "SIDEWAYS"

---------------------------------------------------------------------------
(* External data fetcher: make_api_request_with_retry as a step machine.   *)
(* One Attempt is one pass through lines 65-70 of the loop body, one       *)
(* Backoff is the time.sleep of lines 72-73.                               *)

MaxRetries == 4          \* largest max_retries argument explored

\* What requests.get / response.json() can do on one attempt.
Failures == {[exc |-> "Timeout"], [exc |-> "ConnectionError"],
             [status |-> 500], [status |-> 200, exc |-> "JSONDecodeError"]}
ResponseBodies == {[price |-> 1], EmptyDict, PyNone}
Outcomes == Failures \cup {[status |-> 200, body |-> b] : b \in ResponseBodies}

Succeeds(o) == "body" \in DOMAIN o

\* (mutation of caught: `except requests.RequestException`)
caught_requests_only(exc) == exc \in {"Timeout", "ConnectionError"}

\* `except Exception` (line 69) catches every exception the attempt raises
caught(exc) == exc \in {"Timeout", "ConnectionError", "JSONDecodeError"}

\* line 73
backoff_delay(attempt) == 2 ^ attempt

RetryIdle == [pc |-> "idle"]

\* the call: `for attempt in range(max_retries)` starts, or ends at once
Call(max_retries) ==
    /\ retry.pc = "idle"
    /\ retry' = [pc |-> IF max_retries > 0 THEN "request" ELSE "returned",
                 max_retries |-> max_retries, attempt |-> 0,
                 outcomes |-> <<>>, sleeps |-> <<>>, since |-> clock,
                 result |-> PyNone, raised |-> FALSE]
    /\ UNCHANGED <<clock, cache_file, data_file, appended, last, proc>>

\* where the loop goes after a failed attempt (lines 72-75)
AfterFailure(f) ==
    IF f.attempt < f.max_retries - 1 THEN [f EXCEPT !.pc = "sleep"]
    ELSE [f EXCEPT !.pc = "returned", !.result = PyNone]

Attempt(o) ==
    /\ retry.pc = "request"
    /\ LET f == [retry EXCEPT !.outcomes = Append(@, o)] IN
       retry' =
         IF Succeeds(o) THEN [f EXCEPT !.pc = "returned", !.result = o.body]
         ELSE IF "exc" \in DOMAIN o /\ ~caught(o.exc)
              THEN [f EXCEPT !.pc = "returned", !.raised = TRUE]
         ELSE AfterFailure(f)
    /\ UNCHANGED <<clock, cache_file, data_file, appended, last, proc>>

Backoff ==
    /\ retry.pc = "sleep"
    /\ retry' = [retry EXCEPT !.pc = "request",
                              !.sleeps = Append(@, backoff_delay(retry.attempt)),
                              !.attempt = @ + 1]
    /\ clock' = clock + backoff_delay(retry.attempt)
    /\ UNCHANGED <<cache_file, data_file, appended, last, proc>>

InitRetry ==
    /\ clock = 0
    /\ cache_file = Absent
    /\ data_file = Absent
    /\ appended = <<>>
    /\ last = [op |-> "none", n |-> 0]
    /\ retry = RetryIdle
    /\ proc = <<>>

\* one step of a call in progress
RetryStep == (\E o \in Outcomes : Attempt(o)) \/ Backoff

NextRetry == (\E n \in 0..MaxRetries : Call(n)) \/ RetryStep

SpecRetry == InitRetry /\ [][NextRetry]_vars

\* requests.get returns or raises within its timeout and time.sleep returns:
\* a call in progress always takes its next step.
SpecRetryFair == SpecRetry /\ WF_vars(RetryStep)

---------------------------------------------------------------------------
(* Price lookup.  A response body is a boxed JSON value; `fetch` gives,    *)
(* for each provider in turn, what make_api_request_with_retry returned.   *)

JDict(d) == [dict |-> d]
JNum(q) == [num |-> q.num, den |-> q.den]
JNull == [null |-> TRUE]

KeyError == [raised |-> "KeyError"]
TypeError == [raised |-> "TypeError"]
ValueError == [raised |-> "ValueError"]

\* bool(data) for a response body or None
TruthyJ(x) ==
    IF x = PyNone \/ x = JNull THEN FALSE
    ELSE IF "dict" \in DOMAIN x THEN DOMAIN x.dict # {}
    ELSE IF "list" \in DOMAIN x THEN Len(x.list) > 0
    ELSE IF "str" \in DOMAIN x THEN Len(x.str) > 0
    ELSE IF "int" \in DOMAIN x THEN x.int # 0
    ELSE x.num # 0

\* x[key] for a string key
Subscript(x, key) ==
    IF Raised(x) THEN x
    ELSE IF "dict" \in DOMAIN x
         THEN IF key \in DOMAIN x.dict THEN x.dict[key] ELSE KeyError
    ELSE TypeError

DigitChars == <<"0","1","2","3","4","5","6","7","8","9">>
IsDigit(c) == \E i \in 1..10 : DigitChars[i] = c
DigitValue(c) == (CHOOSE i \in 1..10 : DigitChars[i] = c) - 1

RECURSIVE Decimal(_)
Decimal(s) ==
    IF s = <<>> THEN 0
    ELSE 10 * Decimal(SubSeq(s, 1, Len(s) - 1)) + DigitValue(s[Len(s)])

\* float(s) for a str: decimal digits with at most one point
ParseFloat(s) ==
    LET digits == {i \in 1..Len(s) : IsDigit(s[i])}
        points == {i \in 1..Len(s) : s[i] = "."}
        whole == SelectSeq(s, IsDigit)
    IN  IF digits = {} \/ Cardinality(points) > 1
           \/ digits \cup points # 1..Len(s)
        THEN ValueError
        ELSE LET places == IF points = {} THEN 0
                           ELSE Len(s) - (CHOOSE i \in points : TRUE)
             IN  Frac(Decimal(whole), 10 ^ places)

\* float(x)
float(x) ==
    IF Raised(x) THEN x
    ELSE IF "str" \in DOMAIN x THEN ParseFloat(x.str)
    ELSE IF "num" \in DOMAIN x THEN [num |-> x.num, den |-> x.den]
    ELSE TypeError

apis == <<"Binance", "CoinGecko", "Coinbase">>

\* lines 89-94: the parser of each provider's response
parse_price(name, data) ==
    IF name = "Binance" THEN float(Subscript(data, "price"))
    ELSE IF name = "CoinGecko"
         THEN float(Subscript(Subscript(data, "bitcoin"), "usd"))
    ELSE float(Subscript(Subscript(data, "data"), "amount"))

\* `except (KeyError, TypeError): continue` (lines 95-96)
skipped(r) == Raised(r) /\ r.raised \in {"KeyError", "TypeError"}

RECURSIVE price_loop(_, _)
price_loop(i, fetch) ==
    IF i > Len(apis) THEN [result |-> PyNone, contacted |-> Len(apis)]
    ELSE IF ~TruthyJ(fetch[i]) THEN price_loop(i + 1, fetch)
    ELSE LET r == parse_price(apis[i], fetch[i]) IN
         IF skipped(r) THEN price_loop(i + 1, fetch)
         ELSE [result |-> r, contacted |-> i]

\* result: the float returned, None, or the exception that escapes
get_bitcoin_price(fetch) == price_loop(1, fetch)

---------------------------------------------------------------------------
(* Inputs: user agents, peer entries and Bitnodes response bodies.         *)

UA_CORE == <<"/","S","a","t","o","s","h","i",":","2","5",".","0","/">>
UA_TOR == <<"/","S","a","t","o","s","h","i",":","2","4",".","0","(","T","o","r",")","/">>
UA_ONION == <<"/","b","c","o","i","n",".","O","N","I","O","N","/">>
UA_BTCD == <<"/","b","t","c","d",":","0",".","2","/">>
ADDR_V6 == <<"[",":",":","1","]",":","8","3","3","3">>

\* "<address>": [<version_int>, "<user_agent>", ...]
PeerCore == JList(<<JInt(70016), JStr(UA_CORE), JInt(1)>>)
PeerTor == JList(<<JInt(70016), JStr(UA_TOR), JInt(1)>>)
PeerOnion == JList(<<JInt(70015), JStr(UA_ONION)>>)
PeerBtcd == JList(<<JInt(70002), JStr(UA_BTCD)>>)
\* entries of another shape: an address first, one element only, no list
PeerAddrFirst == JList(<<JStr(ADDR_V6), JStr(UA_CORE)>>)
PeerShort == JList(<<JInt(70016)>>)
PeerNull == PyNone

\* 200-responses of GET /snapshots/latest/
SnapshotA == [total_nodes |-> 2, nodes |-> <<PeerCore, PeerTor>>]
SnapshotB == [total_nodes |-> 3, nodes |-> <<PeerCore, PeerBtcd, PeerCore>>]
NoNodes == [detail |-> "no snapshot"]
BitnodesBodies == {SnapshotA, SnapshotB, NoNodes, EmptyDict}

\* what make_api_request_with_retry hands get_bitnodes_data
BitnodesFetches == {PyNone} \cup BitnodesBodies

---------------------------------------------------------------------------
(* Inputs: what the price providers answer.                                *)

\* the body of provider `name` with the value v in the field its parser reads
PriceBody(name, v) ==
    IF name = "Binance" THEN JDict([price |-> v])
    ELSE IF name = "CoinGecko" THEN JDict([bitcoin |-> JDict([usd |-> v])])
    ELSE JDict([data |-> JDict([amount |-> v])])

\* the price each provider quotes, as it serialises it
Quote(name) ==
    IF name = "Binance" THEN JStr(<<"1","0","1",".","5">>)
    ELSE IF name = "CoinGecko" THEN JNum(Frac(102, 1))
    ELSE JStr(<<"1","0","3">>)

NotANumber == JStr(<<"n","/","a">>)
ErrorBody == JDict([error |-> JStr(<<"b","u","s","y">>)])

\* what make_api_request_with_retry can hand get_bitcoin_price for `name`
PriceResponses(name) ==
    {PyNone, JDict(EmptyDict), ErrorBody, JList(<<JNull>>),
     PriceBody(name, Quote(name)), PriceBody(name, NotANumber),
     PriceBody(name, JNull), PriceBody(name, JList(<<>>))}

PriceFetches ==
    {<<b, g, c>> : b \in PriceResponses("Binance"),
                   g \in PriceResponses("CoinGecko"),
                   c \in PriceResponses("Coinbase")}

\* the price lookups a dashboard run is explored with
RunPriceFetches ==
    {<<PriceBody("Binance", Quote("Binance")), PyNone, PyNone>>,
     <<PyNone, PyNone, PyNone>>,
     <<ErrorBody, PriceBody("CoinGecko", NotANumber), PyNone>>}

---------------------------------------------------------------------------
(* The dashboard run (run_dashboard), as far as it touches the stores.     *)

\* (mutation of get_bitnodes_data: the `if data:` of line 111 is missing)
get_bitnodes_data_unguarded(file, now, fetched) ==
    LET cached_data == get_cached_data(file, "bitnodes", now) IN
    IF Truthy(cached_data)
    THEN [data |-> cached_data, file |-> file, source |-> "cache"]
    ELSE [data |-> fetched,
          file |-> set_cached_data(file, "bitnodes", fetched, now),
          source |-> "fetched"]

\* get_bitnodes_data: the value returned and the cache file afterwards
get_bitnodes_data(file, now, fetched) ==
    LET cached_data == get_cached_data(file, "bitnodes", now) IN
    IF Truthy(cached_data)
    THEN [data |-> cached_data, file |-> file, source |-> "cache"]
    ELSE [data |-> fetched,
          file |-> IF Truthy(fetched)
                   THEN set_cached_data(file, "bitnodes", fetched, now)
                   ELSE file,
          source |-> "fetched"]

\* lines 441-454
current_snapshot(bitnodes_data, now) ==
    LET nodes == Get(bitnodes_data, "nodes", <<>>) IN
    [timestamp |-> isoformat(now),
     total_nodes |-> Len(nodes),
     active_nodes |-> Len(nodes),
     tor_percentage |-> calculate_tor_percentage(nodes),
     node_analysis |-> analyze_nodes_distribution(nodes)]

\* (mutation of previous_data: the latest record is left out of the search)
previous_data_before_latest(historical_data) ==
    IF Len(historical_data) >= 2
    THEN historical_data[Len(historical_data) - 1]
    ELSE PyNone

\* lines 457-459
previous_data(historical_data) ==
    IF NonEmpty(historical_data)
    THEN historical_data[Len(historical_data)]
    ELSE PyNone

\* lines 526-528
tor_trend(snapshot, previous) ==
    IF Truthy(previous)
    THEN calculate_tor_trend(snapshot.tor_percentage,
                             Get(previous, "tor_percentage", Zero))
    ELSE PyNone

\* line 550
network_signal_value(snapshot, previous) ==
    IF Truthy(previous) THEN calculate_network_signal(snapshot, previous)
    ELSE Zero

\* One run from the state (cache, data, now): what it did and left behind.
\* `fetch` is what the price providers returned, `fetched` what Bitnodes did.
Run(cache, data, now, fetch, fetched) ==
    LET btc_price == get_bitcoin_price(fetch).result IN
    IF Raised(btc_price)
    THEN [outcome |-> "raised", cache |-> cache, data |-> data,
          btc_price |-> btc_price]
    ELSE
    LET got == get_bitnodes_data(cache, now, fetched)
        historical_data == load_historical_data(data)
    IN  IF ~Truthy(got.data)
        THEN [outcome |-> "unavailable", cache |-> got.file, data |-> data,
              btc_price |-> btc_price]
        ELSE LET snapshot == current_snapshot(got.data, now)
                 previous == previous_data(historical_data)
             IN  [outcome |-> "appended", cache |-> got.file,
                  data |-> save_historical_data(Append(historical_data, snapshot)),
                  btc_price |-> btc_price,
                  source |-> got.source,
                  loaded |-> Len(historical_data),
                  previous_data |-> previous,
                  current_snapshot |-> snapshot,
                  tor_trend |-> tor_trend(snapshot, previous),
                  network_signal_value |-> network_signal_value(snapshot, previous)]

---------------------------------------------------------------------------
(* Dashboard runs one after another in one process, time passing between   *)
(* them, and a process killed while it rewrites a file.                    *)

MaxRuns == 3             \* dashboard runs explored
MaxClock == 600          \* seconds of virtual time explored
TickSteps == {300, 599}

\* the log that n earlier runs, one every 10 minutes, have left behind
Prefill(n) ==
    LET first == current_snapshot(SnapshotA, 0) IN
    [i \in 1..n |-> [first EXCEPT !.timestamp = isoformat(0 - (n - i + 1) * 600)]]

Hour == 3600
\* a log written at T-48h, T-25h, T-23h and T-1h
SparseLog ==
    <<current_snapshot(SnapshotA, 0 - 48 * Hour),
      current_snapshot(SnapshotB, 0 - 25 * Hour),
      current_snapshot(SnapshotA, 0 - 23 * Hour),
      current_snapshot(SnapshotB, 0 - Hour)>>

\* last.n counts the runs so far, last.kills those of them that were killed
NoOp == [op |-> "none", n |-> 0, kills |-> 0]

\* the state in which the first run finds the files
InitWith(logs) ==
    /\ clock = 0
    /\ cache_file = Absent
    /\ \/ data_file = Absent /\ appended = <<>>
       \/ \E log \in logs : data_file = json_dump(log) /\ appended = log
    /\ last = NoOp
    /\ retry = RetryIdle
    /\ proc = <<>>

RunDashboardOn(fetches, bodies) ==
    /\ last.n < MaxRuns
    /\ \E fetch \in fetches, fetched \in bodies :
         \E r \in {Run(cache_file, data_file, clock, fetch, fetched)} :
         /\ cache_file' = r.cache
         /\ data_file' = r.data
         /\ appended' = IF r.outcome = "appended"
                        THEN Append(appended, r.current_snapshot)
                        ELSE appended
         /\ last' = [op |-> "run", n |-> last.n + 1, kills |-> last.kills,
                     run |-> [f \in DOMAIN r \ {"cache", "data"} |-> r[f]]]
    /\ UNCHANGED <<clock, retry, proc>>

\* A run killed inside save_historical_data, between open(.., 'w') and the
\* end of json.dump (lines 190-191): the file is left truncated.
KilledInSaveOn(fetches, bodies) ==
    /\ last.n < MaxRuns
    /\ \E fetch \in fetches, fetched \in bodies :
         /\ ~Raised(get_bitcoin_price(fetch).result)
         /\ LET got == get_bitnodes_data(cache_file, clock, fetched) IN
            Truthy(got.data) /\ cache_file' = got.file
    /\ data_file' = Corrupt
    /\ last' = [op |-> "killed in save", n |-> last.n + 1,
                kills |-> last.kills + 1]
    /\ UNCHANGED <<clock, appended, retry, proc>>

\* A run killed inside set_cached_data, between open(.., 'w') and the end
\* of json.dump (lines 57-58).
KilledInSetOn(fetches, bodies) ==
    /\ last.n < MaxRuns
    /\ \E fetch \in fetches, fetched \in bodies :
         /\ ~Raised(get_bitcoin_price(fetch).result)
         /\ ~Truthy(get_cached_data(cache_file, "bitnodes", clock))
         /\ Truthy(fetched)
         /\ ~set_cached_data_read(cache_file).raised
    /\ cache_file' = Corrupt
    /\ last' = [op |-> "killed in set", n |-> last.n + 1,
                kills |-> last.kills + 1]
    /\ UNCHANGED <<clock, data_file, appended, retry, proc>>

Tick ==
    /\ \E d \in TickSteps : clock + d <= MaxClock /\ clock' = clock + d
    /\ UNCHANGED <<cache_file, data_file, appended, last, retry, proc>>

RunDashboard == RunDashboardOn(RunPriceFetches, BitnodesFetches)
KilledInSave == KilledInSaveOn(RunPriceFetches, BitnodesFetches)
KilledInSet == KilledInSetOn(RunPriceFetches, BitnodesFetches)

Init == InitWith({Prefill(0), Prefill(1), Prefill(2), SparseLog})

Next == RunDashboard \/ KilledInSave \/ KilledInSet \/ Tick

Spec == Init /\ [][Next]_vars

---------------------------------------------------------------------------
(* SpecRetention: the same runs on a log that is about to reach, or has    *)
(* reached, max_data_points records.                                       *)

PriceQuoted == <<PriceBody("Binance", Quote("Binance")), PyNone, PyNone>>
RetentionBodies == {PyNone, SnapshotA, SnapshotB}

RetentionRun == RunDashboardOn({PriceQuoted}, RetentionBodies)
RetentionKilledInSave == KilledInSaveOn({PriceQuoted}, RetentionBodies)

InitRetention ==
    InitWith({Prefill(max_data_points - 2), Prefill(max_data_points - 1),
              Prefill(max_data_points)})

NextRetention == RetentionRun \/ RetentionKilledInSave \/ Tick

SpecRetention == InitRetention /\ [][NextRetention]_vars

---------------------------------------------------------------------------
(* SpecStore: the two stores called directly, with any key and payload.    *)

MaxStoreOps == 4         \* writes to the stores explored

Keys == {"bitnodes", "prices"}
StorePayloads == {SnapshotA, SnapshotB, EmptyDict}
StoreRecords(now) == {current_snapshot(b, now) : b \in {SnapshotA, SnapshotB}}

\* last.sets[key]: the latest set_cached_data(key, ..) call since the cache
\* file was last torn, or None
NoSets == [k \in Keys |-> PyNone]
StoreIdle == [op |-> "none", n |-> 0, sets |-> NoSets]

InitStore ==
    /\ clock = 0
    /\ cache_file = Absent
    /\ data_file = Absent
    /\ appended = <<>>
    /\ last = StoreIdle
    /\ retry = RetryIdle
    /\ proc = <<>>

SetCachedData ==
    /\ last.n < MaxStoreOps
    /\ \E key \in Keys, data \in StorePayloads :
         /\ cache_file' = set_cached_data(cache_file, key, data, clock)
         /\ last' = [op |-> "set", n |-> last.n + 1,
                     sets |-> [last.sets EXCEPT ![key] = [at |-> clock, data |-> data]],
                     key |-> key, data |-> data, found |-> cache_file.kind]
    /\ UNCHANGED <<clock, data_file, appended, retry, proc>>

GetCachedData ==
    /\ \E key \in Keys :
         last' = [op |-> "get", n |-> last.n, sets |-> last.sets, key |-> key,
                  result |-> get_cached_data(cache_file, key, clock),
                  found |-> cache_file.kind]
    /\ UNCHANGED <<clock, cache_file, data_file, appended, retry, proc>>

LoadHistoricalData ==
    /\ last' = [op |-> "load", n |-> last.n, sets |-> last.sets,
                result |-> load_historical_data(data_file),
                found |-> data_file.kind]
    /\ UNCHANGED <<clock, cache_file, data_file, appended, retry, proc>>

\* lines 434 and 561-562: load, append one record, save
AppendAndSave ==
    /\ last.n < MaxStoreOps
    /\ \E record \in StoreRecords(clock) :
         LET historical_data == load_historical_data(data_file) IN
         /\ data_file' = save_historical_data(Append(historical_data, record))
         /\ appended' = Append(appended, record)
         /\ last' = [op |-> "append", n |-> last.n + 1, sets |-> last.sets,
                     record |-> record, found |-> data_file.kind]
    /\ UNCHANGED <<clock, cache_file, retry, proc>>

\* set_cached_data killed between open(.., 'w') and the end of json.dump
TornCacheWrite ==
    /\ last.n < MaxStoreOps
    /\ ~set_cached_data_read(cache_file).raised
    /\ cache_file' = Corrupt
    /\ last' = [op |-> "torn set", n |-> last.n + 1, sets |-> NoSets]
    /\ UNCHANGED <<clock, data_file, appended, retry, proc>>

\* save_historical_data killed between open(.., 'w') and the end of json.dump
TornDataWrite ==
    /\ last.n < MaxStoreOps
    /\ data_file' = Corrupt
    /\ last' = [op |-> "torn save", n |-> last.n + 1, sets |-> last.sets]
    /\ UNCHANGED <<clock, cache_file, appended, retry, proc>>

NextStore ==
    \/ SetCachedData \/ GetCachedData \/ LoadHistoricalData \/ AppendAndSave
    \/ TornCacheWrite \/ TornDataWrite \/ Tick

SpecStore == InitStore /\ [][NextStore]_vars

---------------------------------------------------------------------------
(* SpecCalls: the functions without side effects, each applied to an       *)
(* argument list drawn by the initial state.                               *)

MaxNum == 3              \* floats explored: n/d, -1 <= n <= MaxNum
MaxDen == 2              \*                  1 <= d <= MaxDen
MaxCount == 2            \* node counts explored: 0..MaxCount
MaxPeers == 2            \* short peer mappings explored: up to MaxPeers entries
MaxOver == 2             \* long peer mappings: up to sample_size + MaxOver entries

Floats == {Frac(n, d) : n \in (0 - 1)..MaxNum, d \in 1..MaxDen}

SignalDicts ==
    {[total_nodes |-> t, active_nodes |-> a] : t, a \in 0..MaxCount}
    \cup {[active_nodes |-> a] : a \in 0..MaxCount}

Peers == {PeerCore, PeerTor, PeerOnion, PeerBtcd, PeerAddrFirst, PeerShort,
          PeerNull}

\* n entries that repeat the entries of `pattern` in turn
Cycle(pattern, n) == [i \in 1..n |-> pattern[((i - 1) % Len(pattern)) + 1]]

Patterns == {<<PeerCore>>, <<PeerCore, PeerTor, PeerAddrFirst>>,
             <<PeerTor, PeerShort>>, <<PeerNull, PeerBtcd, PeerOnion>>}

ShortMappings ==
    UNION {[1..n -> Peers] : n \in 0..MaxPeers}

LongMappings ==
    {Cycle(p, n) : p \in Patterns,
                   n \in (sample_size - 1)..(sample_size + MaxOver)}
    \cup {Cycle(<<PeerCore>>, sample_size) \o Cycle(<<PeerTor>>, k) :
             k \in 1..MaxOver}

PeerMappings == ShortMappings \cup LongMappings

NewCall(fn, args) == [op |-> "call", n |-> 0, fn |-> fn, args |-> args]

CallsDrawn ==
    {NewCall("get_bitcoin_price", <<fetch>>) : fetch \in PriceFetches}
    \cup {NewCall("calculate_tor_trend", <<c, p>>) : c, p \in Floats}
    \cup {NewCall("calculate_network_signal", <<c, p>>) :
             c \in SignalDicts, p \in SignalDicts \cup {PyNone, EmptyDict}}
    \cup {NewCall("analyze_nodes_distribution", <<nodes>>) :
             nodes \in PeerMappings}
    \cup {NewCall("calculate_tor_percentage", <<nodes>>) :
             nodes \in PeerMappings}

InitCalls ==
    /\ clock = 0
    /\ cache_file = Absent
    /\ data_file = Absent
    /\ appended = <<>>
    /\ last \in CallsDrawn
    /\ retry = RetryIdle
    /\ proc = <<>>

Return(fn, result) ==
    /\ last.op = "call"
    /\ last.fn = fn
    /\ last' = [last EXCEPT !.op = "return", !.n = 1] @@ [result |-> result]
    /\ UNCHANGED <<clock, cache_file, data_file, appended, retry, proc>>

GetBitcoinPrice ==
    /\ last.fn = "get_bitcoin_price"
    /\ Return("get_bitcoin_price", get_bitcoin_price(last.args[1]))

CalculateTorTrend ==
    /\ last.fn = "calculate_tor_trend"
    /\ Return("calculate_tor_trend",
              calculate_tor_trend(last.args[1], last.args[2]))

CalculateNetworkSignal ==
    /\ last.fn = "calculate_network_signal"
    /\ Return("calculate_network_signal",
              calculate_network_signal(last.args[1], last.args[2]))

AnalyzeNodesDistribution ==
    /\ last.fn = "analyze_nodes_distribution"
    /\ Return("analyze_nodes_distribution",
              analyze_nodes_distribution(last.args[1]))

CalculateTorPercentage ==
    /\ last.fn = "calculate_tor_percentage"
    /\ Return("calculate_tor_percentage",
              calculate_tor_percentage(last.args[1]))

NextCalls ==
    \/ GetBitcoinPrice \/ CalculateTorTrend \/ CalculateNetworkSignal
    \/ AnalyzeNodesDistribution \/ CalculateTorPercentage

SpecCalls == InitCalls /\ [][NextCalls]_vars

---------------------------------------------------------------------------
(* SpecRace: dashboards running at once in separate processes.  Each file  *)
(* read is one step; each write is two, open(.., 'w'), which empties the   *)
(* file, and json.dump, which fills it.  Nothing locks the files.          *)

NProcs == 2              \* processes running run_dashboard at once

Procs == 1..NProcs
RaceBodies == {PyNone, SnapshotA, SnapshotB}

\* the locals of one run
Frame == [pc |-> "start", data |-> PyNone, cache |-> EmptyDict, stamp |-> 0,
          historical_data |-> <<>>, snapshot |-> PyNone]

\* (mutation of written_history: the file is read again when it is written)
written_history_merged(f, file) ==
    Append(load_historical_data(file), f.snapshot)

\* lines 561-562: the list handed to save_historical_data is the one the run
\* loaded on line 434, with its own record appended
written_history(f, file) == Append(f.historical_data, f.snapshot)

InitRace ==
    /\ clock = 0
    /\ cache_file = Absent
    /\ \/ data_file = Absent /\ appended = <<>>
       \/ data_file = json_dump(Prefill(1)) /\ appended = Prefill(1)
    /\ last = [op |-> "none", n |-> 0, save_by |-> 0, set_by |-> 0]
    /\ retry = RetryIdle
    /\ proc = [p \in Procs |-> Frame]

Goto(p, f) == proc' = [proc EXCEPT ![p] = f]

\* get_bitnodes_data, line 103
ReadCache(p) ==
    /\ proc[p].pc = "start"
    /\ LET cached_data == get_cached_data(cache_file, "bitnodes", clock) IN
       Goto(p, IF Truthy(cached_data)
               THEN [proc[p] EXCEPT !.pc = "load", !.data = cached_data]
               ELSE [proc[p] EXCEPT !.pc = "fetch"])
    /\ UNCHANGED <<clock, cache_file, data_file, appended, last, retry>>

\* get_bitnodes_data, lines 108-111
Fetch(p) ==
    /\ proc[p].pc = "fetch"
    /\ \E fetched \in RaceBodies :
         Goto(p, [proc[p] EXCEPT !.data = fetched,
                      !.pc = IF Truthy(fetched) THEN "set_read" ELSE "load"])
    /\ UNCHANGED <<clock, cache_file, data_file, appended, last, retry>>

\* set_cached_data, lines 47-55
SetRead(p) ==
    /\ proc[p].pc = "set_read"
    /\ LET r == set_cached_data_read(cache_file) IN
       Goto(p, IF r.raised THEN [proc[p] EXCEPT !.pc = "load"]
               ELSE [proc[p] EXCEPT !.pc = "set_open", !.cache = r.cache,
                                    !.stamp = clock])
    /\ UNCHANGED <<clock, cache_file, data_file, appended, last, retry>>

\* set_cached_data, line 57
SetOpen(p) ==
    /\ proc[p].pc = "set_open"
    /\ cache_file' = Corrupt
    /\ Goto(p, [proc[p] EXCEPT !.pc = "set_dump"])
    /\ UNCHANGED <<clock, data_file, appended, last, retry>>

\* set_cached_data, line 58
SetDump(p) ==
    /\ proc[p].pc = "set_dump"
    /\ cache_file' = set_cached_data_write(proc[p].cache, "bitnodes",
                                           proc[p].data, proc[p].stamp)
    /\ last' = [last EXCEPT !.op = "set", !.set_by = p]
    /\ Goto(p, [proc[p] EXCEPT !.pc = "load"])
    /\ UNCHANGED <<clock, data_file, appended, retry>>

\* run_dashboard, lines 434-454
Load(p) ==
    /\ proc[p].pc = "load"
    /\ LET historical_data == load_historical_data(data_file) IN
       Goto(p, IF ~Truthy(proc[p].data)
               THEN [proc[p] EXCEPT !.pc = "done",
                                    !.historical_data = historical_data]
               ELSE [proc[p] EXCEPT !.pc = "save_open",
                         !.historical_data = historical_data,
                         !.snapshot = current_snapshot(proc[p].data, clock)])
    /\ UNCHANGED <<clock, cache_file, data_file, appended, last, retry>>

\* save_historical_data, line 190
SaveOpen(p) ==
    /\ proc[p].pc = "save_open"
    /\ data_file' = Corrupt
    /\ Goto(p, [proc[p] EXCEPT !.pc = "save_dump"])
    /\ UNCHANGED <<clock, cache_file, appended, last, retry>>

\* save_historical_data, line 191
SaveDump(p) ==
    /\ proc[p].pc = "save_dump"
    /\ data_file' = save_historical_data(written_history(proc[p], data_file))
    /\ appended' = Append(appended, proc[p].snapshot)
    /\ last' = [last EXCEPT !.op = "save", !.n = @ + 1, !.save_by = p]
    /\ Goto(p, [proc[p] EXCEPT !.pc = "done"])
    /\ UNCHANGED <<clock, cache_file, retry>>

NextRace ==
    \E p \in Procs :
        \/ ReadCache(p) \/ Fetch(p) \/ SetRead(p) \/ SetOpen(p) \/ SetDump(p)
        \/ Load(p) \/ SaveOpen(p) \/ SaveDump(p)

SpecRace == InitRace /\ [][NextRace]_vars

---------------------------------------------------------------------------
(* Claims.                                                                 *)

\* the last n elements of a sequence
Tail_n(seq, n) == SubSeq(seq, Len(seq) - n + 1, Len(seq))

\* C1: after any sequence of dashboard runs the history file holds at most
\* max_data_points records, and they are the most recently appended records
\* in append order: the file is the tail of everything appended, and as long
\* as no write was cut short it is the whole tail of length
\* min(appended, max_data_points).
C1_RetentionFifo ==
    data_file.kind = "json" =>
        LET held == json_load(data_file) IN
        /\ Len(held) <= max_data_points
        /\ Len(held) <= Len(appended)
        /\ held = Tail_n(appended, Len(held))
        /\ last.kills = 0 => Len(held) = Min(Len(appended), max_data_points)

\* a run has appended to a full log and the oldest record is gone
C1_Witness ==
    /\ last.op = "run" /\ last.run.outcome = "appended"
    /\ last.run.loaded = max_data_points
    /\ data_file.kind = "json"
    /\ Len(json_load(data_file)) = max_data_points
    /\ Len(appended) > max_data_points
    /\ json_load(data_file)[1] = appended[Len(appended) - max_data_points + 1]

\* C2: a get of a key after a set of it returns the payload while fewer than
\* cache_duration seconds have passed since the set, and None from then on.
C2_GetAfterSet ==
    \A key \in Keys :
        last.sets[key] # PyNone =>
            get_cached_data(cache_file, key, clock) =
                IF clock - last.sets[key].at < cache_duration
                THEN last.sets[key].data
                ELSE PyNone

\* What holds of the code: the expiry rule for every entry the file holds.
CacheExpiry ==
    cache_file.kind = "json" =>
        \A key \in Keys :
            get_cached_data(cache_file, key, clock) =
                IF key \in DOMAIN json_load(cache_file)
                   /\ clock - json_load(cache_file)[key].timestamp.iso < cache_duration
                THEN json_load(cache_file)[key].data
                ELSE PyNone

\* C3: a corrupt file reads as empty (get gives None, load gives the empty
\* list), and the next write replaces it by a parseable file holding the new
\* entry: a get of the key just set returns its payload, a load returns the
\* record just appended.
C3_CorruptRecovered ==
    /\ cache_file = Corrupt =>
           \A key \in Keys : get_cached_data(cache_file, key, clock) = PyNone
    /\ data_file = Corrupt => load_historical_data(data_file) = <<>>
    /\ last.op = "set" /\ last.found = "corrupt" =>
           /\ cache_file.kind = "json"
           /\ get_cached_data(cache_file, last.key, clock) = last.data
    /\ last.op = "append" /\ last.found = "corrupt" =>
           /\ data_file.kind = "json"
           /\ load_historical_data(data_file) = <<last.record>>

\* What holds of the code: the history recovers, the cache stays corrupt.
HistoryRecovers ==
    /\ data_file = Corrupt => load_historical_data(data_file) = <<>>
    /\ last.op = "append" /\ last.found = "corrupt" =>
           /\ data_file.kind = "json"
           /\ load_historical_data(data_file) = <<last.record>>
    /\ last.op = "set" /\ last.found = "corrupt" => cache_file = Corrupt

Sum(seq) == LET S[i \in 0..Len(seq)] == IF i = 0 THEN 0 ELSE S[i - 1] + seq[i]
            IN  S[Len(seq)]

Failed(outcomes) == \A i \in 1..Len(outcomes) : ~Succeeds(outcomes[i])

\* C4 (in every state of a call): no more than max_retries attempts are made,
\* nothing is raised, no attempt follows a successful one, the call is still
\* going only while attempts remain, and it returns the body of the successful
\* attempt, or None once all max_retries attempts have failed.
RetryInv ==
    retry.pc # "idle" =>
        LET made == Len(retry.outcomes) IN
        /\ made <= retry.max_retries
        /\ ~retry.raised
        /\ \A i \in 1..(made - 1) : ~Succeeds(retry.outcomes[i])
        /\ retry.pc \in {"request", "sleep"} =>
               made < retry.max_retries /\ Failed(retry.outcomes)
        /\ retry.pc = "sleep" => made >= 1
        /\ retry.pc = "returned" /\ ~Failed(retry.outcomes) =>
               retry.result = retry.outcomes[made].body
        /\ retry.pc = "returned" /\ Failed(retry.outcomes) =>
               retry.result = PyNone /\ made = retry.max_retries

\* C4: make_api_request_with_retry always terminates, after at most
\* max_retries attempts: it returns the first parseable 200 body, tries again
\* after every failure while attempts remain, returns None when all attempts
\* failed, and never raises.
C4_RetryTerminates ==
    /\ []RetryInv
    /\ (retry.pc # "idle") ~> (retry.pc = "returned")

\* the third of three attempts succeeds after a timeout and an unparseable body
C4_Witness ==
    /\ retry.pc = "returned"
    /\ retry.max_retries = 3
    /\ Len(retry.outcomes) = 3
    /\ retry.outcomes[1] = [exc |-> "Timeout"]
    /\ retry.outcomes[2] = [status |-> 200, exc |-> "JSONDecodeError"]
    /\ retry.result = [price |-> 1]

\* C5: the wait after failed attempt 0 is 2 seconds and after failed attempt 1
\* is 4 seconds, no wait follows the final attempt, and three failed attempts
\* of three sleep 6 seconds in total.
C5_BackoffSeconds ==
    retry.pc # "idle" =>
        /\ \A i \in 1..Len(retry.sleeps) : retry.sleeps[i] = 2 ^ i
        /\ retry.pc = "returned" /\ retry.outcomes # <<>>
               => Len(retry.sleeps) = Len(retry.outcomes) - 1
        /\ retry.pc = "returned" /\ Failed(retry.outcomes) /\ retry.max_retries = 3
               => Sum(retry.sleeps) = 6 /\ clock - retry.since = 6

\* What holds of the code: the wait after failed attempt k is 2^k seconds
\* (1, then 2), so three failed attempts of three sleep 3 seconds.
BackoffAsCoded ==
    retry.pc # "idle" =>
        /\ \A i \in 1..Len(retry.sleeps) : retry.sleeps[i] = 2 ^ (i - 1)
        /\ retry.pc = "returned" /\ retry.outcomes # <<>>
               => Len(retry.sleeps) = Len(retry.outcomes) - 1
        /\ retry.pc = "returned" /\ Failed(retry.outcomes) /\ retry.max_retries = 3
               => Sum(retry.sleeps) = 3 /\ clock - retry.since = 3

Returned(fn) == last.op = "return" /\ last.fn = fn

\* the providers whose response carries the price they quote
Quoting(fetch) == {i \in 1..Len(apis) : fetch[i] = PriceBody(apis[i], Quote(apis[i]))}
First(set) == CHOOSE i \in set : \A j \in set : i <= j
\* the number each provider quotes: 101.5, 102, 103
QuoteValue(i) == <<Frac(203, 2), Frac(102, 1), Frac(103, 1)>>[i]

\* C6: get_bitcoin_price returns the price of the first provider, in the order
\* Binance, CoinGecko, Coinbase, whose response yields a numeric price, skips
\* silently every provider that is unavailable or whose field is absent or of
\* the wrong shape (a value that is not a number included), contacts no
\* provider after the one that yielded the price, returns None when none
\* does, and never raises.
C6_PriceFallback ==
    Returned("get_bitcoin_price") =>
        LET fetch == last.args[1]
            r == last.result
        IN  /\ ~Raised(r.result)
            /\ IF Quoting(fetch) = {}
               THEN r.result = PyNone
               ELSE /\ r.result = QuoteValue(First(Quoting(fetch)))
                    /\ r.contacted = First(Quoting(fetch))

\* the providers, before the first one quoting, whose field is a string that
\* float() rejects
Unparseable(fetch) ==
    {i \in 1..Len(apis) :
        /\ fetch[i] = PriceBody(apis[i], NotANumber)
        /\ \A j \in Quoting(fetch) : i < j}

\* What holds of the code: the fallback works as claimed unless a provider
\* contacted sends a string that is no number; then ValueError escapes.
PriceFallbackAsCoded ==
    Returned("get_bitcoin_price") =>
        LET fetch == last.args[1]
            r == last.result
        IN  IF Unparseable(fetch) # {}
            THEN r.result = ValueError /\ r.contacted = First(Unparseable(fetch))
            ELSE IF Quoting(fetch) = {}
            THEN r.result = PyNone
            ELSE /\ r.result = QuoteValue(First(Quoting(fetch)))
                 /\ r.contacted = First(Quoting(fetch))

\* C9: the signal computations never divide by zero: calculate_tor_trend(x, 0)
\* is 0.0 for every x, and calculate_network_signal(current, previous) is 0.0
\* when previous is absent or when the total_nodes of either is 0; neither
\* raises on any input.
C9_ZeroGuards ==
    /\ Returned("calculate_tor_trend") =>
           /\ ~Raised(last.result)
           /\ last.args[2].num = 0 => last.result = Zero
    /\ Returned("calculate_network_signal") =>
           /\ ~Raised(last.result)
           /\ \/ ~Truthy(last.args[2])
              \/ Get(last.args[2], "total_nodes", 0) = 0
              \/ Get(last.args[1], "total_nodes", 0) = 0
              => last.result = Zero

\* both guards have been exercised, and so has the division
C9_Witness ==
    \/ /\ Returned("calculate_tor_trend")
       /\ last.args[2].num = 0 /\ last.args[1].num # 0 /\ last.result = Zero
    \/ /\ Returned("calculate_network_signal")
       /\ Truthy(last.args[2])
       /\ Get(last.args[2], "total_nodes", 0) = 0
       /\ Get(last.args[1], "total_nodes", 0) > 0
       /\ last.result = Zero

NodeTypes == {"Tor", "IPv6", "IPv4"}
\* the sum of the transport-type counts of an analysis
TypeTotal(analysis) ==
    LET node_types == Get(analysis, "node_types", EmptyDict) IN
    Sum([i \in 1..3 |-> Get(node_types, <<"Tor", "IPv6", "IPv4">>[i], 0)])

\* C10 as stated: the sample is the first min(len(nodes), sample_size)
\* entries and the Tor, IPv6 and IPv4 counts sum to the sample size.
C10_CountsSumToSample ==
    Returned("analyze_nodes_distribution") =>
        LET n == Min(Len(last.args[1]), sample_size) IN
        /\ Get(last.result, "total_nodes", 0) = n
        /\ TypeTotal(last.result) = n

\* C10 as amended: the sample is the first min(len(nodes), sample_size)
\* entries; each sampled entry that is a list of at least two elements is
\* counted in exactly one of the classes Tor, IPv6, IPv4 and no other entry is
\* counted, so the counts sum to the number of such entries, which is the
\* sample size when every sampled entry is one.
C10_CountsSumToWellFormed ==
    Returned("analyze_nodes_distribution") =>
        LET nodes == last.args[1]
            n == Min(Len(nodes), sample_size)
            counted == {i \in 1..n : well_formed(nodes[i])}
            node_types == Get(last.result, "node_types", EmptyDict)
        IN  /\ Get(last.result, "total_nodes", 0) = n
            /\ DOMAIN node_types \subseteq NodeTypes
            /\ \A t \in NodeTypes :
                   Get(node_types, t, 0) =
                       Cardinality({i \in counted : node_type(nodes[i]) = t})
            /\ TypeTotal(last.result) = Cardinality(counted)
            /\ Cardinality(counted) <= n
            /\ counted = 1..n => TypeTotal(last.result) = n

\* a mapping longer than the cap, with entries the loop skips, was analysed
C10_Witness ==
    /\ Returned("analyze_nodes_distribution")
    /\ Len(last.args[1]) > sample_size
    /\ last.result.total_nodes = sample_size
    /\ TypeTotal(last.result) < sample_size
    /\ TypeTotal(last.result) > 0

\* C7: nothing makes the read-modify-write of the files atomic, so the last
\* writer wins: whenever a file is whole, it holds exactly what its latest
\* writer computed from the copy that writer read earlier, with nothing of
\* what another process wrote in between.
C7_LastWriterWins ==
    /\ last.save_by # 0 /\ data_file.kind = "json" =>
           json_load(data_file) =
               Append(proc[last.save_by].historical_data,
                      proc[last.save_by].snapshot)
    /\ last.set_by # 0 /\ cache_file.kind = "json" =>
           json_load(cache_file) =
               Put(proc[last.set_by].cache, "bitnodes",
                   [timestamp |-> isoformat(proc[last.set_by].stamp),
                    data |-> proc[last.set_by].data])

\* two runs loaded the same history, each appended its own record, and the
\* file the later writer left lacks the record of the earlier one
C7_Witness ==
    /\ \A p \in Procs : proc[p].pc = "done" /\ proc[p].snapshot # PyNone
    /\ proc[1].historical_data = proc[2].historical_data
    /\ proc[1].snapshot # proc[2].snapshot
    /\ last.save_by = 2
    /\ data_file.kind = "json"
    /\ Len(appended) = Len(proc[1].historical_data) + 2
    /\ Len(json_load(data_file)) = Len(proc[1].historical_data) + 1
    /\ \A i \in 1..Len(json_load(data_file)) :
           json_load(data_file)[i] # proc[1].snapshot

Day == 24 * Hour
\* the lookup the claim describes: of all records but the latest, the first
\* of those nearest in time to the target
Nearest(log, target) ==
    IF Len(log) < 2 THEN PyNone
    ELSE LET far(i) == Abs(fromisoformat(log[i].timestamp) - target)
             best == CHOOSE i \in 1..(Len(log) - 1) :
                         \A j \in 1..(Len(log) - 1) :
                             far(i) < far(j) \/ (far(i) = far(j) /\ i <= j)
         IN  log[best]

\* this step is a dashboard run that obtained a snapshot
Appending == last'.n = last.n + 1 /\ last'.op = "run"
             /\ last'.run.outcome = "appended"

\* C8 as stated: the record a run compares with is the one nearest in time
\* to 24 hours ago among all records but the latest, and there is none when
\* the log has fewer than 2 records.
C8_NearestLookup ==
    [][Appending =>
          last'.run.previous_data =
              Nearest(load_historical_data(data_file), clock - Day)]_vars

\* C8 as amended: the record a run compares with is the latest record of the
\* log it loaded, whatever its timestamp, and there is none only when that log
\* is empty.
C8_LatestRecord ==
    [][Appending =>
          LET log == load_historical_data(data_file) IN
          /\ last'.run.loaded = Len(log)
          /\ log = <<>> => last'.run.previous_data = PyNone
          /\ log # <<>> => last'.run.previous_data = log[Len(log)]]_vars

\* a run at T on the log written at T-48h, T-25h, T-23h, T-1h compared with
\* the T-1h record
C8_Witness ==
    /\ last.op = "run" /\ last.run.outcome = "appended"
    /\ last.run.loaded = 4
    /\ fromisoformat(last.run.current_snapshot.timestamp) = 0
    /\ fromisoformat(last.run.previous_data.timestamp) = 0 - Hour

\* this step is a dashboard run that ran to its return or to an exception
Running == last'.n = last.n + 1 /\ last'.op = "run"

\* the run of this step finds no fresh node snapshot in the cache
CacheMiss == ~Truthy(get_cached_data(cache_file, "bitnodes", clock))

\* C11: a run that finds no fresh snapshot in the cache and gets none from
\* Bitnodes either leaves the history file and the cache file as they were,
\* with no record appended and no cache entry written, whether the price
\* lookup returned a price, returned None or raised.
C11_UnavailableLeavesFiles ==
    [][Running /\ CacheMiss /\ last'.run.outcome # "appended" =>
          /\ data_file' = data_file
          /\ cache_file' = cache_file
          /\ appended' = appended]_vars

\* a run without a price and without a snapshot, on a history that holds
\* records and a cache whose entry has expired: both files are still whole
C11_Witness ==
    /\ last.op = "run" /\ last.run.outcome = "unavailable"
    /\ last.run.btc_price = PyNone
    /\ cache_file.kind = "json" /\ "bitnodes" \in DOMAIN json_load(cache_file)
    /\ ~Truthy(get_cached_data(cache_file, "bitnodes", clock))
    /\ data_file.kind = "json" /\ json_load(data_file) = appended
    /\ appended # <<>>

\* C12: every run that obtains a node snapshot, freshly fetched or served
\* from the cache, writes a history that ends with exactly one new record,
\* stamped with the time of the run, after the retained records of the
\* history it found, unchanged and in order.  A run that finds a fresh cache
\* entry always obtains its snapshot from it, without changing the cache, so
\* that the runs inside one 600-second window all append records derived from
\* the one cached response.
C12_OneRecordPerSnapshot ==
    [][Running =>
          LET log == load_historical_data(data_file)
              cached_data == get_cached_data(cache_file, "bitnodes", clock)
              run == last'.run
              after == json_load(data_file')
              kept == Len(after) - 1
          IN  /\ run.outcome = "appended" =>
                   /\ data_file'.kind = "json"
                   /\ Len(after) = Min(Len(log) + 1, max_data_points)
                   /\ after[Len(after)] = run.current_snapshot
                   /\ \A i \in 1..kept : after[i] = log[Len(log) - kept + i]
                   /\ appended' = Append(appended, run.current_snapshot)
                   /\ run.current_snapshot.timestamp = isoformat(clock)
                   /\ run.source = IF CacheMiss THEN "fetched" ELSE "cache"
              /\ ~CacheMiss /\ run.outcome # "raised" =>
                   /\ run.outcome = "appended"
                   /\ cache_file' = cache_file
                   /\ run.current_snapshot.total_nodes =
                          Len(Get(cached_data, "nodes", <<>>))
                   /\ run.current_snapshot.tor_percentage =
                          calculate_tor_percentage(Get(cached_data, "nodes", <<>>))
                   /\ run.current_snapshot.node_analysis =
                          analyze_nodes_distribution(Get(cached_data, "nodes", <<>>))]_vars

\* three runs within 600 seconds of one fetch, on a log that was full: the
\* last two were served from the cache, the oldest records have gone, and the
\* history ends with three records, the last later than the first, that
\* differ in their timestamps only
C12_Witness ==
    /\ last.op = "run" /\ last.n = 3 /\ last.kills = 0
    /\ last.run.outcome = "appended" /\ last.run.source = "cache"
    /\ clock < cache_duration
    /\ data_file.kind = "json"
    /\ LET log == json_load(data_file)
           n == Len(log)
       IN  /\ n = max_data_points /\ Len(appended) > max_data_points
           /\ log[n] = last.run.current_snapshot
           /\ fromisoformat(log[n - 2].timestamp) = 0
           /\ fromisoformat(log[n - 2].timestamp) <= fromisoformat(log[n - 1].timestamp)
           /\ fromisoformat(log[n - 1].timestamp) <= fromisoformat(log[n].timestamp)
           /\ fromisoformat(log[n].timestamp) > 0
           /\ \A i \in {n - 2, n - 1} :
                  [log[i] EXCEPT !.timestamp = log[n].timestamp] = log[n]
           /\ log[n].total_nodes > 0

=============================================================================
